---------------------------- MODULE Spec2Model ----------------------------
(***************************************************************************)
(* Model of the PersonaRAG retrieval core: DocumentStore,                  *)
(* PersonaDocumentFilter and DocumentRetriever of rag_system.py, and       *)
(* CompletePromptBuilder.build_complete_prompt of prompt_builder.py.       *)
(*                                                                         *)
(* Python str values are TLA+ strings, handled character by character      *)
(* with Len, SubSeq and \o.  Python float values are modelled by exact     *)
(* rationals <<numerator, denominator>> in lowest terms.  Python objects   *)
(* of class Document live in a heap and are referred to by address, so     *)
(* that the in-place writes of relevance_score are seen through every      *)
(* reference, as in the program.                                           *)
(***************************************************************************)
EXTENDS Integers, Sequences, FiniteSets, TLC

(***************************************************************************)
(* Bounds of the model.                                                    *)
(***************************************************************************)
\* number of add_document calls explored on top of the sample corpus
MaxAdded == 1

(***************************************************************************)
(* Rationals.                                                              *)
(***************************************************************************)
RECURSIVE GCD(_, _)
GCD(a, b) == IF b = 0 THEN a ELSE GCD(b, a % b)

Frac(n, d) == LET g == GCD(IF n < 0 THEN -n ELSE n, d)
              IN  <<n \div g, d \div g>>

FZero == <<0, 1>>
FOne == <<1, 1>>
FAdd(a, b) == Frac(a[1] * b[2] + b[1] * a[2], a[2] * b[2])
FMul(a, b) == Frac(a[1] * b[1], a[2] * b[2])
FDivInt(a, n) == Frac(a[1], a[2] * n)
FLess(a, b) == a[1] * b[2] < b[1] * a[2]
FLeq(a, b) == a[1] * b[2] <= b[1] * a[2]
FMin(a, b) == IF FLess(b, a) THEN b ELSE a

RECURSIVE FSum(_)
FSum(s) == IF s = <<>> THEN FZero ELSE FAdd(Head(s), FSum(Tail(s)))

(***************************************************************************)
(* Python str methods.                                                     *)
(***************************************************************************)
UpperCase == "ABCDEFGHIJKLMNOPQRSTUVWXYZ"
LowerCase == "abcdefghijklmnopqrstuvwxyz"
Whitespace == {" ", "\t", "\n", "\r"}

CharAt(s, i) == SubSeq(s, i, i)

LowerChar(c) ==
    IF \E i \in 1..26 : CharAt(UpperCase, i) = c
    THEN CharAt(LowerCase, CHOOSE i \in 1..26 : CharAt(UpperCase, i) = c)
    ELSE c

\* str.lower()
RECURSIVE LowerRange(_, _, _)
LowerRange(s, i, j) ==
    IF i > j THEN ""
    ELSE IF i = j THEN LowerChar(CharAt(s, i))
    ELSE LET m == (i + j) \div 2
         IN  LowerRange(s, i, m) \o LowerRange(s, m + 1, j)
Lower(s) == LowerRange(s, 1, Len(s))

\* t in s
Contains(s, t) ==
    \E i \in 1..(Len(s) - Len(t) + 1) : SubSeq(s, i, i + Len(t) - 1) = t

StartsWith(s, t) == Len(t) <= Len(s) /\ SubSeq(s, 1, Len(t)) = t
EndsWith(s, t) == Len(t) <= Len(s) /\ SubSeq(s, Len(s) - Len(t) + 1, Len(s)) = t

\* str.split(): the maximal runs of non-whitespace characters, in order
IsSpaceAt(s, i) == i < 1 \/ i > Len(s) \/ CharAt(s, i) \in Whitespace
TokenStarts(s) == {i \in 1..Len(s) : ~IsSpaceAt(s, i) /\ IsSpaceAt(s, i - 1)}
TokenEnd(s, i) == CHOOSE j \in i..Len(s) :
                      /\ IsSpaceAt(s, j + 1)
                      /\ \A k \in i..j : ~IsSpaceAt(s, k)
Split(s) ==
    LET starts == TokenStarts(s)
        start(n) == CHOOSE i \in starts : Cardinality({j \in starts : j <= i}) = n
    IN  [n \in 1..Cardinality(starts) |-> SubSeq(s, start(n), TokenEnd(s, start(n)))]

\* str.strip(chars)
RECURSIVE LStrip(_, _)
LStrip(s, chars) ==
    IF Len(s) > 0 /\ CharAt(s, 1) \in chars
    THEN LStrip(SubSeq(s, 2, Len(s)), chars) ELSE s
RECURSIVE RStrip(_, _)
RStrip(s, chars) ==
    IF Len(s) > 0 /\ CharAt(s, Len(s)) \in chars
    THEN RStrip(SubSeq(s, 1, Len(s) - 1), chars) ELSE s
Strip(s, chars) == RStrip(LStrip(s, chars), chars)

\* the elements of a list, as a set
Range(s) == {s[i] : i \in 1..Len(s)}

(***************************************************************************)
(* DocumentType, Document and the sample corpus.                           *)
(***************************************************************************)
POLICY == "policy"
TECHNICAL == "technical"
BUSINESS == "business"
TRAINING == "training"
GENERAL == "general"
DocumentType == {POLICY, TECHNICAL, BUSINESS, TRAINING, GENERAL}

\* Document(id, content, doc_type, metadata, relevance_score = 0.0); the
\* metadata mapping is read by no operation of the core and is left out
Document(id, content, doc_type, relevance_score) ==
    [id |-> id, content |-> content, doc_type |-> doc_type,
     relevance_score |-> relevance_score]

sample_docs == <<
    Document("policy_001", "Remote Work Policy: Employees may work remotely up to 3 days per week with manager approval. This policy supports work-life balance while maintaining team collaboration. All remote work must be logged in the time tracking system.", POLICY, FZero),
    Document("tech_001", "Authentication System: The system uses JWT tokens for authentication. Tokens are generated server-side using a secret key and contain user claims. The token is sent in the Authorization header as 'Bearer <token>'. Tokens expire after 24 hours and must be refreshed using the refresh endpoint.", TECHNICAL, FZero),
    Document("business_001", "Q3 Financial Results: Revenue increased by 15% year-over-year to $2.5M. Customer acquisition cost decreased by 8% while retention improved to 92%. The new product line contributed 30% of total revenue with strong market adoption.", BUSINESS, FZero),
    Document("trends_001", "Q1 2025 Business Trends: AI adoption accelerating across enterprises with 67% increasing investment. Remote work hybrid models becoming standard with 3-4 days office requirement. Supply chain diversification priority due to geopolitical risks. Sustainability reporting now mandatory for public companies. Cybersecurity budgets increasing by 25% YoY. Key takeaways include AI transformation, hybrid work adoption, and risk management priorities.", BUSINESS, FZero),
    Document("training_001", "Onboarding Process: New employees complete a 2-week onboarding program. Week 1 covers company policies, tools training, and team introductions. Week 2 focuses on role-specific training and project assignments. Each new hire is assigned a mentor for the first 90 days.", TRAINING, FZero),
    Document("general_001", "Company Culture: We value innovation, collaboration, and continuous learning. Regular team meetings, hackathons, and knowledge sharing sessions are encouraged. The company supports professional development with annual training budgets.", GENERAL, FZero),
    Document("challenges_001", "Industry Challenges: The technology sector faces significant challenges including talent shortages in AI and cybersecurity fields, increasing regulatory compliance requirements, and pressure to adopt sustainable practices. Companies struggle with digital transformation costs while maintaining legacy system compatibility. Competition for skilled workers has increased salaries by 20% YoY. Data privacy regulations like GDPR and CCPA require significant investment in compliance infrastructure. Supply chain disruptions have increased operational costs by 15%. Customer expectations for 24/7 service require major infrastructure investments.", BUSINESS, FZero)
>>

(***************************************************************************)
(* PersonaDocumentFilter.persona_filters.                                  *)
(***************************************************************************)
persona_filters ==
    [Executive |->
        [preferred_types |-> <<BUSINESS, POLICY>>,
         content_keywords |-> <<"revenue", "cost", "roi", "strategy", "risk", "impact", "challenges", "industry">>,
         exclude_keywords |-> <<"implementation", "code", "technical", "debug">>,
         max_documents |-> 3,
         min_relevance |-> <<3, 10>>],
     Developer |->
        [preferred_types |-> <<TECHNICAL, TRAINING, BUSINESS>>,
         content_keywords |-> <<"code", "api", "system", "implementation", "architecture", "business", "trends", "challenges", "industry">>,
         exclude_keywords |-> <<"executive", "financial", "legal">>,
         max_documents |-> 5,
         min_relevance |-> <<2, 5>>],
     Student |->
        [preferred_types |-> <<TRAINING, GENERAL, TECHNICAL, BUSINESS>>,
         content_keywords |-> <<"learn", "tutorial", "guide", "example", "process", "business", "trends", "takeaways", "key", "challenges", "industry">>,
         exclude_keywords |-> <<"executive", "financial", "legal">>,
         max_documents |-> 3,
         min_relevance |-> <<1, 5>>],
     General |->
        [preferred_types |-> <<GENERAL, BUSINESS, POLICY>>,
         content_keywords |-> <<"company", "culture", "team", "business", "trends", "challenges", "industry">>,
         exclude_keywords |-> <<"code", "implementation", "debug">>,
         max_documents |-> 4,
         min_relevance |-> <<1, 4>>]]
    @@ ("HR Specialist" :>
        [preferred_types |-> <<POLICY, TRAINING, GENERAL, BUSINESS>>,
         content_keywords |-> <<"policy", "employee", "compliance", "process", "procedure", "business", "trends", "challenges", "industry">>,
         exclude_keywords |-> <<"code", "technical", "revenue", "financial">>,
         max_documents |-> 4,
         min_relevance |-> <<3, 10>>])

KnownPersonas == DOMAIN persona_filters

(***************************************************************************)
(* DocumentRetriever.calculate_relevance.                                  *)
(***************************************************************************)
common_words == {"the", "is", "are", "a", "an", "and", "or", "but", "in", "on", "at", "to", "for", "of", "with", "by", "when", "where", "how", "why", "what", "our", "your", "their", "we", "they", "you", "me", "us", "them"}

StripChars == {"?", ".", "!"}


\* the terms kept without the test of their length
RECURSIVE KeepTermsAnyLength(_)
KeepTermsAnyLength(tokens) ==
    IF tokens = <<>> THEN <<>>
    ELSE LET term == Head(tokens)
         IN  IF term \notin common_words
             THEN <<Strip(term, StripChars)>> \o KeepTermsAnyLength(Tail(tokens))
             ELSE KeepTermsAnyLength(Tail(tokens))

\* [term.strip('?.!') for term in query_lower.split()
\*      if term not in common_words and len(term.strip('?.!')) > 2]
RECURSIVE KeepTerms(_)
KeepTerms(tokens) ==
    IF tokens = <<>> THEN <<>>
    ELSE LET term == Head(tokens)
         IN  IF term \notin common_words /\ Len(Strip(term, StripChars)) > 2
             THEN <<Strip(term, StripChars)>> \o KeepTerms(Tail(tokens))
             ELSE KeepTerms(Tail(tokens))

query_terms(query) == KeepTerms(Split(Lower(query)))


\* the variation that drops the last character of every term
VariationDropLast(term) == SubSeq(term, 1, Len(term) - 1)

\* the singular or plural variation added for one term
Variation(term) ==
    IF EndsWith(term, "ies") THEN SubSeq(term, 1, Len(term) - 3) \o "y"
    ELSE IF EndsWith(term, "s") THEN SubSeq(term, 1, Len(term) - 1)
    ELSE term \o "s"

expanded_terms(query) ==
    Range(query_terms(query)) \cup {Variation(t) : t \in Range(query_terms(query))}


\* the weight that counts every occurrence as a partial match
MatchWeightPartial(term, doc_lower) ==
    IF Contains(doc_lower, term) THEN 1 ELSE 0

\* the weight one candidate term adds to exact_matches + partial_matches
MatchWeight(term, doc_lower) ==
    IF Contains(doc_lower, term)
    THEN IF \/ Contains(" " \o doc_lower \o " ", " " \o term \o " ")
            \/ StartsWith(doc_lower, term \o " ")
            \/ EndsWith(doc_lower, " " \o term)
         THEN 2
         ELSE 1
    ELSE 0

\* exact_matches + partial_matches, summed over the candidate terms
RECURSIVE total_matches(_, _)
total_matches(terms, doc_lower) ==
    IF terms = {} THEN 0
    ELSE LET term == CHOOSE x \in terms : TRUE
         IN  MatchWeight(term, doc_lower) + total_matches(terms \ {term}, doc_lower)

\* the topic bonus, in tenths
TopicTable == <<
    <<"authentication", 5>>, <<"system", 3>>, <<"jwt", 4>>, <<"token", 3>>,
    <<"cybersecurity", 2>> >>

RECURSIVE TopicBonusFrom(_, _, _)
TopicBonusFrom(i, query_lower, doc_lower) ==
    IF i > Len(TopicTable) THEN 0
    ELSE (IF Contains(query_lower, TopicTable[i][1]) /\ Contains(doc_lower, TopicTable[i][1])
          THEN TopicTable[i][2] ELSE 0)
         + TopicBonusFrom(i + 1, query_lower, doc_lower)
topic_bonus(query_lower, doc_lower) == TopicBonusFrom(1, query_lower, doc_lower)

\* self.filter.persona_filters.get(persona, {}).get(key, [])
PersonaGet(persona, key) ==
    IF persona \in DOMAIN persona_filters THEN persona_filters[persona][key] ELSE <<>>

\* the keyword bonus, in tenths: one tenth for each preferred keyword found
RECURSIVE KeywordBonusFrom(_, _, _)
KeywordBonusFrom(i, keywords, doc_lower) ==
    IF i > Len(keywords) THEN 0
    ELSE (IF Contains(doc_lower, Lower(keywords[i])) THEN 1 ELSE 0)
         + KeywordBonusFrom(i + 1, keywords, doc_lower)
keyword_bonus(persona, doc_lower) ==
    KeywordBonusFrom(1, PersonaGet(persona, "content_keywords"), doc_lower)

\* the type bonus, in tenths
type_bonus(persona, doc_type) ==
    IF doc_type \in Range(PersonaGet(persona, "preferred_types")) THEN 2 ELSE 0

\* the clamp left out
ClampOff(relevance) == relevance

\* min(relevance, 1.0)
Clamp(relevance) == FMin(relevance, FOne)


\* the score without the coverage cutoff and without the test of an empty
\* document: the density is then a division by the word count, and a
\* quotient of denominator 0 stands for the ZeroDivisionError
calculate_relevance_unguarded(document, query, persona) ==
    LET query_lower == Lower(query)
        doc_lower == Lower(document.content)
        terms == expanded_terms(query)
    IN  IF terms = {} THEN FZero
        ELSE
        LET total == total_matches(terms, doc_lower)
            query_coverage == Frac(total, Cardinality(terms) * 2)
            total_doc_words == Cardinality(TokenStarts(doc_lower))
        IN  IF total_doc_words = 0 THEN <<total, 0>>
            ELSE
            LET matched_density == Frac(total, total_doc_words)
                bonus == topic_bonus(query_lower, doc_lower)
                         + keyword_bonus(persona, doc_lower)
                         + type_bonus(persona, document.doc_type)
            IN  Clamp(FAdd(FAdd(FMul(query_coverage, <<2, 5>>),
                                FMul(matched_density, <<1, 5>>)),
                           Frac(bonus, 10)))


\* the score without the density cutoff
calculate_relevance_density_uncut(document, query, persona) ==
    LET query_lower == Lower(query)
        doc_lower == Lower(document.content)
        terms == expanded_terms(query)
    IN  IF terms = {} THEN FZero
        ELSE
        LET total == total_matches(terms, doc_lower)
            query_coverage == Frac(total, Cardinality(terms) * 2)
        IN  IF FLess(query_coverage, <<3, 10>>) THEN FZero
            ELSE
            LET total_doc_words == Len(Split(doc_lower))
            IN  IF total_doc_words = 0 THEN FZero
                ELSE
                LET matched_density == Frac(total, total_doc_words)
                    bonus == topic_bonus(query_lower, doc_lower)
                             + keyword_bonus(persona, doc_lower)
                             + type_bonus(persona, document.doc_type)
                IN  Clamp(FAdd(FAdd(FMul(query_coverage, <<2, 5>>),
                                    FMul(matched_density, <<1, 5>>)),
                               Frac(bonus, 10)))


\* the score without the coverage cutoff
calculate_relevance_coverage_uncut(document, query, persona) ==
    LET query_lower == Lower(query)
        doc_lower == Lower(document.content)
        terms == expanded_terms(query)
    IN  IF terms = {} THEN FZero
        ELSE
        LET total == total_matches(terms, doc_lower)
            query_coverage == Frac(total, Cardinality(terms) * 2)
            total_doc_words == Cardinality(TokenStarts(doc_lower))
        IN  IF total_doc_words = 0 THEN FZero
            ELSE
            LET matched_density == Frac(total, total_doc_words)
            IN  IF FLess(matched_density, <<1, 100>>) THEN FZero
                ELSE
                LET bonus == topic_bonus(query_lower, doc_lower)
                             + keyword_bonus(persona, doc_lower)
                             + type_bonus(persona, document.doc_type)
                IN  Clamp(FAdd(FAdd(FMul(query_coverage, <<2, 5>>),
                                    FMul(matched_density, <<1, 5>>)),
                               Frac(bonus, 10)))

calculate_relevance(document, query, persona) ==
    LET query_lower == Lower(query)
        doc_lower == Lower(document.content)
        terms == expanded_terms(query)
    IN  IF terms = {} THEN FZero
        ELSE
        LET total == total_matches(terms, doc_lower)
            query_coverage == Frac(total, Cardinality(terms) * 2)
        IN  IF FLess(query_coverage, <<3, 10>>) THEN FZero
            ELSE
            LET total_doc_words == Len(Split(doc_lower))
            IN  IF total_doc_words = 0 THEN FZero
                ELSE
                LET matched_density == Frac(total, total_doc_words)
                IN  IF FLess(matched_density, <<1, 100>>) THEN FZero
                    ELSE
                    LET bonus == topic_bonus(query_lower, doc_lower)
                                 + keyword_bonus(persona, doc_lower)
                                 + type_bonus(persona, document.doc_type)
                        relevance ==
                            FAdd(FAdd(FMul(query_coverage, <<2, 5>>),
                                      FMul(matched_density, <<1, 5>>)),
                                 Frac(bonus, 10))
                    IN  Clamp(relevance)

(***************************************************************************)
(* Inputs explored by the model.                                           *)
(***************************************************************************)
Queries == {"What is the remote work policy?",
            "How does the authentication system work?",
            "zzqqxx nonsense unmatched",
            "What is the company culture?",
            "the is a",
            "days uses",
            "JWT token authentication",
            "is? a to",
            ""}

\* the queries given to calculate_relevance alone
ScoreQueries ==
    Queries \cup {"", "remote work what?", "policies day days", "authentication"}

UnknownPersona == "Intern"
Personas == KnownPersonas \cup {UnknownPersona}

TopKs == {0, 1, 10}

\* the Document objects a caller hands to add_document; a second call with
\* the same id takes the place of the first in the store
new_documents == {
    Document("note_003", "JWT token authentication debug uses 3 days", TECHNICAL, <<7, 10>>)}

\* the Document objects given to calculate_relevance alone
ScoreDocuments ==
    Range(sample_docs) \cup new_documents
    \cup {Document("note_002", "", GENERAL, FZero),
          Document("note_007", "  \n ", GENERAL, FZero),
          Document("note_004", "JWT", TECHNICAL, FZero),
          Document("note_005", "Remote work policy implementation code", POLICY, FZero),
          Document("note_006", "Remote work guide for 3 days per week", TECHNICAL, FZero),
          \* a document of 201 words, one of them a word of the queries
          Document("note_008", "Authentication x x x x x x x x x x x x x x x x x x x x x x x x x x x x x x x x x x x x x x x x x x x x x x x x x x x x x x x x x x x x x x x x x x x x x x x x x x x x x x x x x x x x x x x x x x x x x x x x x x x x x x x x x x x x x x x x x x x x x x x x x x x x x x x x x x x x x x x x x x x x x x x x x x x x x x x x x x x x x x x x x x x x x x x x x x x x x x x x x x x x x x x x x x x x x x x x x x x x x x x x", TECHNICAL, FZero)}

\* what calculate_relevance reads of a Document
Shape(document) == [content |-> document.content, doc_type |-> document.doc_type]
Shapes == {Shape(d) : d \in ScoreDocuments}

\* calculate_relevance, tabulated once over the inputs of the model
relevance_table ==
    [sh \in Shapes, q \in ScoreQueries, p \in Personas |-> calculate_relevance(sh, q, p)]
relevance(document, query, persona) == relevance_table[Shape(document), query, persona]

(***************************************************************************)
(* State.                                                                  *)
(***************************************************************************)
VARIABLES
    heap,             \* the Document objects, by address
    documents,        \* DocumentStore.documents: <<[key, ref]>> in insertion order
    current_persona,  \* PersonaRAG.current_persona of the instance the caller shares
    ret,              \* the last operation of the sequential caller and its outcome
    threads,          \* the concurrent retrieve_documents calls
    chat_histories    \* app.chat_histories: the list of messages under each key

vars == <<heap, documents, current_persona, ret, threads, chat_histories>>

ThreadIds == {1, 2}

\* DocumentStore.get_all_documents
get_all_documents(docs) == [i \in 1..Len(docs) |-> docs[i].ref]

\* DocumentStore.get_document: dict.get, None when the key is absent; None is
\* the address 0, which no object has
None == 0
get_document(docs, doc_id) ==
    IF \E i \in 1..Len(docs) : docs[i].key = doc_id
    THEN docs[CHOOSE i \in 1..Len(docs) : docs[i].key = doc_id].ref
    ELSE None


\* the assignment that always adds an entry
DictAppend(docs, key, ref) == Append(docs, [key |-> key, ref |-> ref])

\* self.documents[document.id] = document, on an insertion-ordered dict
DictSet(docs, key, ref) ==
    IF \E i \in 1..Len(docs) : docs[i].key = key
    THEN [i \in 1..Len(docs) |->
             IF docs[i].key = key THEN [key |-> key, ref |-> ref] ELSE docs[i]]
    ELSE Append(docs, [key |-> key, ref |-> ref])

(***************************************************************************)
(* PersonaDocumentFilter.filter_documents.                                 *)
(***************************************************************************)
\* any(keyword.lower() in content_lower for keyword in exclude_keywords)
HasExcludedKeyword(content, persona) ==
    LET content_lower == Lower(content)
        keywords == persona_filters[persona].exclude_keywords
    IN  \E i \in 1..Len(keywords) : Contains(content_lower, Lower(keywords[i]))

Contents == {sh.content : sh \in Shapes}
excluded_table ==
    [c \in Contents, p \in KnownPersonas |-> HasExcludedKeyword(c, p)]

\* list.sort(key=lambda x: x.relevance_score, reverse=True): stable
RECURSIVE InsertDesc(_, _, _)
InsertDesc(sorted, x, h) ==
    IF sorted = <<>> THEN <<x>>
    ELSE IF FLess(h[Head(sorted)].relevance_score, h[x].relevance_score)
         THEN <<x>> \o sorted
         ELSE <<Head(sorted)>> \o InsertDesc(Tail(sorted), x, h)

RECURSIVE SortDescFrom(_, _, _, _)
SortDescFrom(list, i, acc, h) ==
    IF i > Len(list) THEN acc
    ELSE SortDescFrom(list, i + 1, InsertDesc(acc, list[i], h), h)

\* the list left in the order it has
SortDescOff(list, h) == list

SortDesc(list, h) == SortDescFrom(list, 1, <<>>, h)

\* list[:n]
Slice(list, n) ==
    IF n >= 0
    THEN SubSeq(list, 1, IF n < Len(list) THEN n ELSE Len(list))
    ELSE SubSeq(list, 1, IF Len(list) + n > 0 THEN Len(list) + n ELSE 0)

HighlyRelevant == <<7, 10>>

\* the exclusion waived for a highly relevant document
PassesHighlyRelevant(doc, filters, persona) ==
    /\ ~(/\ doc.doc_type \notin Range(filters.preferred_types)
         /\ FLess(doc.relevance_score, HighlyRelevant))
    /\ (~excluded_table[doc.content, persona]
        \/ ~FLess(doc.relevance_score, HighlyRelevant))
    /\ ~FLess(doc.relevance_score, filters.min_relevance)

\* the body of the loop: TRUE when the document is appended to filtered_docs
Passes(doc, filters, persona) ==
    /\ ~(/\ doc.doc_type \notin Range(filters.preferred_types)
         /\ FLess(doc.relevance_score, HighlyRelevant))
    /\ ~excluded_table[doc.content, persona]
    /\ ~FLess(doc.relevance_score, filters.min_relevance)

RECURSIVE SelectRefs(_, _, _, _)
SelectRefs(list, h, filters, persona) ==
    IF list = <<>> THEN <<>>
    ELSE IF Passes(h[Head(list)], filters, persona)
         THEN <<Head(list)>> \o SelectRefs(Tail(list), h, filters, persona)
         ELSE SelectRefs(Tail(list), h, filters, persona)

\* the result not cut to max_documents
filter_documents_uncut(list, persona, h) ==
    IF persona \notin DOMAIN persona_filters
    THEN list
    ELSE SortDesc(SelectRefs(list, h, persona_filters[persona], persona), h)


\* an unknown persona filtered with the configuration of General
filter_documents_unknown_as_general(list, persona, h) ==
    LET known == IF persona \in DOMAIN persona_filters THEN persona ELSE "General"
        filters == persona_filters[known]
    IN  Slice(SortDesc(SelectRefs(list, h, filters, known), h), filters.max_documents)

filter_documents(list, persona, h) ==
    IF persona \notin DOMAIN persona_filters
    THEN list
    ELSE LET filters == persona_filters[persona]
             filtered_docs == SelectRefs(list, h, filters, persona)
         IN  Slice(SortDesc(filtered_docs, h), filters.max_documents)

(***************************************************************************)
(* DocumentRetriever.retrieve_documents.                                   *)
(***************************************************************************)
MinimumThreshold == <<1, 10>>

\* doc.relevance_score += relevance
AddRelevance(doc, r) == [doc EXCEPT !.relevance_score = FAdd(@, r)]

\* doc.relevance_score = relevance
SetRelevance(doc, r) == [doc EXCEPT !.relevance_score = r]


\* one turn of the scoring loop without the test of the floor
ScoreOneNoFloor(st, a, query, persona) ==
    LET r == relevance(st.heap[a], query, persona)
    IN  [heap |-> [st.heap EXCEPT ![a] = SetRelevance(@, r)],
         scored_docs |-> Append(st.scored_docs, a)]


\* one turn of the scoring loop that writes the score of a kept document only
ScoreOneKeptOnly(st, a, query, persona) ==
    LET r == relevance(st.heap[a], query, persona)
    IN  IF FLess(MinimumThreshold, r)
        THEN [heap |-> [st.heap EXCEPT ![a] = SetRelevance(@, r)],
              scored_docs |-> Append(st.scored_docs, a)]
        ELSE st

\* one turn of the scoring loop on the document at address a
ScoreOne(st, a, query, persona) ==
    LET r == relevance(st.heap[a], query, persona)
    IN  [heap |-> [st.heap EXCEPT ![a] = SetRelevance(@, r)],
         scored_docs |-> IF FLess(MinimumThreshold, r)
                         THEN Append(st.scored_docs, a)
                         ELSE st.scored_docs]

RECURSIVE ScoreLoop(_, _, _, _, _)
ScoreLoop(st, all_docs, i, query, persona) ==
    IF i > Len(all_docs) THEN st
    ELSE ScoreLoop(ScoreOne(st, all_docs[i], query, persona),
                   all_docs, i + 1, query, persona)

RetrievalResult(docs, query, persona, total_retrieved, retrieval_metadata) ==
    [documents |-> docs, query |-> query, persona |-> persona,
     total_retrieved |-> total_retrieved,
     retrieval_metadata |-> retrieval_metadata]

\* the empty result without its reason code
NoRelevantDocumentsNoReason(query, persona) ==
    RetrievalResult(<<>>, query, persona, 0, [avg_relevance |-> FZero])

NoRelevantDocuments(query, persona) ==
    RetrievalResult(<<>>, query, persona, 0, [reason |-> "no_relevant_documents"])


\* the sum of the scores, not divided by their count
SumRelevance(filtered_docs, h) ==
    FSum([i \in 1..Len(filtered_docs) |-> h[filtered_docs[i]].relevance_score])

\* sum(doc.relevance_score for doc in filtered_docs) / len(filtered_docs)
\*     if filtered_docs else 0
AvgRelevance(filtered_docs, h) ==
    IF filtered_docs # <<>>
    THEN FDivInt(FSum([i \in 1..Len(filtered_docs) |-> h[filtered_docs[i]].relevance_score]),
                 Len(filtered_docs))
    ELSE FZero


\* the filter applied to the whole sorted list, its output cut to top_k
FilterThenSlice(sorted, query, persona, top_k, h) ==
    LET filtered_docs == Slice(filter_documents(sorted, persona, h), top_k)
    IN  RetrievalResult(filtered_docs, query, persona, Len(filtered_docs),
                        [avg_relevance |-> AvgRelevance(filtered_docs, h)])

\* lines 304-313: slice, filter and build the result
FilterAndBuild(sorted, query, persona, top_k, h) ==
    LET filtered_docs == filter_documents(Slice(sorted, top_k), persona, h)
    IN  RetrievalResult(filtered_docs, query, persona, Len(filtered_docs),
                        [avg_relevance |-> AvgRelevance(filtered_docs, h)])

\* lines 301-313: sort, then slice, filter and build the result
RankAndFilter(scored_docs, query, persona, top_k, h) ==
    FilterAndBuild(SortDesc(scored_docs, h), query, persona, top_k, h)

\* the call without its early return
retrieve_documents_no_early_return(h, docs, query, persona, top_k) ==
    LET all_docs == get_all_documents(docs)
        st == ScoreLoop([heap |-> h, scored_docs |-> <<>>], all_docs, 1, query, persona)
    IN  [heap |-> st.heap,
         result |-> RankAndFilter(st.scored_docs, query, persona, top_k, st.heap)]

\* the whole call, run without interruption: the heap it leaves and its result
retrieve_documents(h, docs, query, persona, top_k) ==
    LET all_docs == get_all_documents(docs)
        st == ScoreLoop([heap |-> h, scored_docs |-> <<>>], all_docs, 1, query, persona)
    IN  [heap |-> st.heap,
         result |-> IF st.scored_docs = <<>>
                    THEN NoRelevantDocuments(query, persona)
                    ELSE RankAndFilter(st.scored_docs, query, persona, top_k, st.heap)]

\* what a caller reads off a result: identifiers, scores, count and metadata
ResultView(result, h) ==
    [ids |-> [i \in 1..Len(result.documents) |-> h[result.documents[i]].id],
     scores |-> [i \in 1..Len(result.documents) |-> h[result.documents[i]].relevance_score],
     total_retrieved |-> result.total_retrieved,
     retrieval_metadata |-> result.retrieval_metadata]

(***************************************************************************)
(* DocumentRetriever.build_rag_context.                                    *)
(***************************************************************************)
\* "\n".join(parts)
RECURSIVE JoinFrom(_, _, _)
JoinFrom(parts, i, sep) ==
    IF i > Len(parts) THEN ""
    ELSE IF i = Len(parts) THEN parts[i]
    ELSE parts[i] \o sep \o JoinFrom(parts, i + 1, sep)
Join(parts, sep) == JoinFrom(parts, 1, sep)

Digits == "0123456789"
RECURSIVE IntToStr(_)
IntToStr(n) ==
    IF n < 10 THEN CharAt(Digits, n + 1)
    ELSE IntToStr(n \div 10) \o CharAt(Digits, (n % 10) + 1)

\* f"{x:.2f}" for x >= 0: the nearest hundredth, a tie going to the even one
FormatFixed2(x) ==
    LET n == x[1] * 100
        q == n \div x[2]
        r == n % x[2]
        cents == IF 2 * r > x[2] THEN q + 1
                 ELSE IF 2 * r = x[2] THEN q + (q % 2)
                 ELSE q
    IN  IntToStr(cents \div 100) \o "." \o IntToStr((cents % 100) \div 10)
        \o IntToStr(cents % 10)


\* the parts of the documents, numbered from 0
RECURSIVE DocumentPartsFromZero(_, _, _)
DocumentPartsFromZero(list, i, h) ==
    IF i > Len(list) THEN <<>>
    ELSE << "Document " \o IntToStr(i - 1) \o ":",
            h[list[i]].content,
            "[Relevance: " \o FormatFixed2(h[list[i]].relevance_score)
                \o ", Type: " \o h[list[i]].doc_type \o "]",
            "" >>
         \o DocumentPartsFromZero(list, i + 1, h)

RECURSIVE DocumentParts(_, _, _)
DocumentParts(list, i, h) ==
    IF i > Len(list) THEN <<>>
    ELSE << "Document " \o IntToStr(i) \o ":",
            h[list[i]].content,
            "[Relevance: " \o FormatFixed2(h[list[i]].relevance_score)
                \o ", Type: " \o h[list[i]].doc_type \o "]",
            "" >>
         \o DocumentParts(list, i + 1, h)

build_rag_context(retrieval_result, h) ==
    IF retrieval_result.documents = <<>>
    THEN "No relevant documents found for this query."
    ELSE Join(<< "Use the following retrieved documents to answer the question.",
                 "These documents are selected specifically for the current persona.",
                 "",
                 "Retrieved Context:" >>
              \o DocumentParts(retrieval_result.documents, 1, h)
              \o << "Only use this context to generate the answer." >>,
              "\n")

(***************************************************************************)
(* RolePromptExtensions: the role extensions and build_dynamic_prompt.     *)
(***************************************************************************)
RoleExtension_EXECUTIVE ==
    [
     system_prompt |-> <<
        "You are PersonaRAG acting as an Executive-level assistant.",
        "Your task:",
        "1. Carefully understand the user's specific question.",
        "2. Identify the main topic of the question (policy, goals, strategy, technology, etc.).",
        "3. Answer the question using retrieved documents ONLY.",
        "4. Present the answer in an executive style:",
        "   - Strategic",
        "   - High-level",
        "   - Business-focused",
        "   - No technical details",
        "5. Do NOT reuse generic phrases.",
        "6. Ensure each answer is specific to the question asked.",
        "If documents do not contain the answer, clearly state that information is not available." >>,
     answer_style |-> <<
        "High-level strategic summary",
        "Focus on ROI, risks, and business impact",
        "Avoid technical implementation details",
        "Keep responses concise and decision-oriented",
        "Include competitive implications when relevant" >>,
     tone_guidelines |-> <<
        "Strategic and forward-thinking",
        "Business-focused and results-oriented",
        "Confident and authoritative",
        "Avoid technical jargon and acronyms",
        "Use business metrics and KPIs" >>,
     content_filters |-> <<
        "Remove low-level technical details",
        "Focus on business outcomes and impact",
        "Emphasize competitive advantages",
        "Include cost/benefit analysis",
        "Highlight strategic alignment" >>,
     response_format |-> <<
        "Start with executive summary",
        "Follow with key implications",
        "End with recommendation or next steps" >>]

RoleExtension_DEVELOPER ==
    [
     system_prompt |-> <<
        "You are PersonaRAG acting as a Developer-level assistant.",
        "Your task:",
        "1. Carefully understand the user's specific technical question.",
        "2. Identify the main technical topic (API, database, architecture, security, etc.).",
        "3. Answer the question using retrieved documents ONLY.",
        "4. Present the answer in a developer style:",
        "   - Technical and detailed",
        "   - Implementation-focused",
        "   - Include code examples when relevant",
        "5. Do NOT reuse generic phrases.",
        "6. Ensure each answer is specific to the technical question asked.",
        "If documents do not contain the answer, clearly state that technical information is not available." >>,
     answer_style |-> <<
        "Technical and detailed explanations",
        "Use precise industry terminology",
        "Provide step-by-step implementation guidance",
        "Include code examples and architectural patterns",
        "Reference best practices and design patterns" >>,
     tone_guidelines |-> <<
        "Technical and precise",
        "Practical and implementation-focused",
        "Problem-solving oriented",
        "Use correct technical terminology",
        "Be thorough and comprehensive" >>,
     content_filters |-> <<
        "Include technical implementation details",
        "Provide code snippets and examples",
        "Reference relevant frameworks/libraries",
        "Include performance considerations",
        "Add debugging and testing guidance" >>,
     response_format |-> <<
        "Technical overview",
        "Implementation steps",
        "Code examples",
        "Best practices",
        "Common pitfalls to avoid" >>]

RoleExtension_HR_SPECIALIST ==
    [
     system_prompt |-> <<
        "You are PersonaRAG acting as an HR Specialist assistant.",
        "Your task:",
        "1. Carefully understand the user's specific HR question.",
        "2. Identify the main HR topic (policy, benefits, compliance, employee relations, etc.).",
        "3. Answer the question using retrieved documents ONLY.",
        "4. Present the answer in an HR style:",
        "   - Empathetic and people-focused",
        "   - Policy-oriented and compliant",
        "   - Clear process explanations",
        "5. Do NOT reuse generic phrases.",
        "6. Ensure each answer is specific to the HR question asked.",
        "If documents do not contain the answer, clearly state that HR policy information is not available." >>,
     answer_style |-> <<
        "Empathetic and people-focused",
        "Policy-oriented and compliant",
        "Clear process explanations",
        "Include legal and compliance considerations",
        "Focus on fairness and consistency" >>,
     tone_guidelines |-> <<
        "Empathetic and understanding",
        "Compliance-focused and careful",
        "Clear and procedural",
        "Professional and supportive",
        "Risk-aware and cautious" >>,
     content_filters |-> <<
        "Include compliance and legal considerations",
        "Focus on people impact and experience",
        "Reference relevant policies and procedures",
        "Include privacy and confidentiality notes",
        "Emphasize fairness and consistency" >>,
     response_format |-> <<
        "Policy overview",
        "People impact assessment",
        "Compliance considerations",
        "Recommended actions",
        "Risk mitigation steps" >>]

RoleExtension_STUDENT ==
    [
     system_prompt |-> <<
        "You are PersonaRAG acting as a Student-level assistant.",
        "Your task:",
        "1. Carefully understand the user's specific learning question.",
        "2. Identify the main learning topic (concept, process, technology, etc.).",
        "3. Answer the question using retrieved documents ONLY.",
        "4. Present the answer in a student style:",
        "   - Simple, accessible language",
        "   - Explain concepts from basics",
        "   - Use analogies and real-world examples",
        "5. Do NOT reuse generic phrases.",
        "6. Ensure each answer is specific to the learning question asked.",
        "If documents do not contain the answer, clearly state that learning information is not available." >>,
     answer_style |-> <<
        "Simple, accessible language",
        "Explain concepts from basics",
        "Use analogies and real-world examples",
        "Break down complex topics into steps",
        "Encourage learning and exploration" >>,
     tone_guidelines |-> <<
        "Patient and encouraging",
        "Educational and supportive",
        "Simple and clear",
        "Enthusiastic about learning",
        "Avoid overwhelming complexity" >>,
     content_filters |-> <<
        "Simplify complex concepts",
        "Add educational examples and analogies",
        "Explain technical terms in simple language",
        "Include step-by-step breakdowns",
        "Add learning resources or references" >>,
     response_format |-> <<
        "Simple concept introduction",
        "Step-by-step explanation",
        "Real-world example",
        "Practice exercise or question",
        "Additional learning resources" >>]

RoleExtension_GENERAL ==
    [
     system_prompt |-> <<
        "You are PersonaRAG acting as a General-level assistant.",
        "Your task:",
        "1. Carefully understand the user's specific question.",
        "2. Identify the main topic (policy, technology, benefits, process, etc.).",
        "3. Answer the question using retrieved documents ONLY.",
        "4. Present the answer in a general style:",
        "   - Balanced and moderate detail",
        "   - Clear and accessible explanations",
        "   - Practical and useful information",
        "5. Do NOT reuse generic phrases.",
        "6. Ensure each answer is specific to the question asked.",
        "If documents do not contain the answer, clearly state that information is not available." >>,
     answer_style |-> <<
        "Balanced and moderate detail",
        "Clear and accessible explanations",
        "Broad appeal and understanding",
        "Practical and useful information",
        "Avoid extremes of simplicity or complexity" >>,
     tone_guidelines |-> <<
        "Balanced and neutral",
        "Clear and helpful",
        "Accessible and inclusive",
        "Practical and straightforward",
        "Friendly and approachable" >>,
     content_filters |-> <<
        "Balance technical and non-technical content",
        "Ensure broad accessibility",
        "Include practical applications",
        "Maintain clarity without oversimplifying",
        "Add context for better understanding" >>,
     response_format |-> <<
        "Clear introduction",
        "Main explanation",
        "Practical implications",
        "Key takeaways",
        "Additional context if needed" >>]

\* RolePromptExtensions.role_extensions, by persona value
role_extensions ==
    [Executive |-> RoleExtension_EXECUTIVE,
     Developer |-> RoleExtension_DEVELOPER,
     Student |-> RoleExtension_STUDENT,
     General |-> RoleExtension_GENERAL]
    @@ ("HR Specialist" :> RoleExtension_HR_SPECIALIST)

\* [f"- {item}" for item in items]
Bullets(items) == [i \in 1..Len(items) |-> "- " \o items[i]]

build_dynamic_prompt(persona) ==
    LET extension == role_extensions[persona]
    IN  Join(<< "Current persona: " \o persona, "" >>
             \o extension.system_prompt \o << "" >>
             \o << "Answer style:" >> \o Bullets(extension.answer_style) \o << "" >>
             \o << "Tone guidelines:" >> \o Bullets(extension.tone_guidelines) \o << "" >>
             \o << "Content filters:" >> \o Bullets(extension.content_filters) \o << "" >>
             \o << "Response format:" >> \o Bullets(extension.response_format),
             "\n")

\* CompletePromptBuilder.build_master_system_prompt
build_master_system_prompt == "You are PersonaRAG, a personalized knowledge assistant.\n\nYour task is to answer user questions by:\n1. Adapting your response to the user's active persona (role)\n2. Using only the provided retrieved documents as the knowledge source\n3. Matching the tone, depth, and explanation style of the persona\n4. Keeping answers clear, accurate, and relevant\n\nRules:\n- If persona is Executive: be concise, strategic, business-focused, no technical jargon.\n- If persona is Developer: be technical, precise, include examples or code if relevant.\n- If persona is HR Specialist: be empathetic, compliant, policy-oriented, and clear.\n- If persona is Student: explain in simple language with examples.\n- If persona is General: give a balanced, easy-to-understand answer.\n\nIf the answer is not found in the retrieved documents, clearly say:\n\"I don't have enough information from the available knowledge to answer this.\"\n\nDo NOT hallucinate.\nDo NOT use external knowledge."

(***************************************************************************)
(* CompletePromptBuilder.build_complete_prompt.                            *)
(***************************************************************************)
\* getattr on an instance of a dataclass: the fields are its only attributes
HasAttr(obj, name) == name \in DOMAIN obj

Raised(exception) == [raised |-> exception]
IsRaised(outcome) == DOMAIN outcome = {"raised"}

PromptComponents(master, role, rag_context, user_question, metadata) ==
    [master_system_prompt |-> master, role_specific_prompt |-> role,
     rag_context |-> rag_context, user_question |-> user_question,
     metadata |-> metadata]

\* lines 96-122, given the retrieval result and the three prompt blocks
build_complete_prompt(user_question, persona, master, role, rag_context, result, h) ==
    LET final_prompt == master \o "\n\n" \o role \o "\n\n" \o rag_context
                        \o "\n\nUser Question:\n" \o user_question
    IN  IF ~HasAttr(result, "total_docs_found") \/ ~HasAttr(result, "retrieval_method")
        THEN Raised("AttributeError")
        ELSE PromptComponents(master, role, rag_context, user_question,
                 [persona |-> persona,
                  question |-> user_question,
                  documents_retrieved |-> result["total_docs_found"],
                  retrieval_method |-> result["retrieval_method"],
                  prompt_length |-> Len(final_prompt),
                  retrieved_doc_ids |->
                      [i \in 1..Len(result.documents) |-> h[result.documents[i]].id]])

\* CompletePromptBuilder.get_final_prompt_string(components)
get_final_prompt_string(components) ==
    components.master_system_prompt \o "\n\n" \o components.role_specific_prompt
    \o "\n\n" \o components.rag_context
    \o "\n\nUser Question:\n" \o components.user_question

(***************************************************************************)
(* The sequential caller: one action for each operation.                   *)
(***************************************************************************)
Idle == [t \in ThreadIds |-> [pc |-> "idle"]]

\* chat_histories = {}
NoHistories == [key \in {} |-> <<>>]

Init ==
    /\ heap = sample_docs
    /\ documents = [i \in 1..Len(sample_docs) |-> [key |-> sample_docs[i].id, ref |-> i]]
    /\ current_persona = "General"
    /\ ret = [op |-> "init"]
    /\ threads = Idle
    /\ chat_histories = NoHistories

\* DocumentStore.add_document(document), document a new object
AddDocument(document) ==
    /\ Len(heap) < Len(sample_docs) + MaxAdded
    /\ heap' = Append(heap, document)
    /\ documents' = DictSet(documents, document.id, Len(heap) + 1)
    /\ ret' = [op |-> "add_document", value |-> None]
    /\ UNCHANGED <<current_persona, threads, chat_histories>>

\* PersonaDocumentFilter.filter_documents(docs, persona), docs the documents
\* of the store in store order, with the scores they carry
FilterDocuments(persona) ==
    LET list == get_all_documents(documents)
    IN  /\ ret' = [op |-> "filter_documents", input |-> list, persona |-> persona,
                   value |-> filter_documents(list, persona, heap)]
        /\ UNCHANGED <<heap, documents, current_persona, threads, chat_histories>>

\* DocumentRetriever.retrieve_documents(query, persona, top_k)
RetrieveDocuments(query, persona, top_k) ==
    LET r == retrieve_documents(heap, documents, query, persona, top_k)
    IN  /\ heap' = r.heap
        /\ ret' = [op |-> "retrieve_documents", top_k |-> top_k, value |-> r.result]
        /\ UNCHANGED <<documents, current_persona, threads, chat_histories>>

\* the questions given to build_complete_prompt
PromptQuestions == ScoreQueries

\* CompletePromptBuilder.build_complete_prompt(user_question, persona),
\* persona a member of the Persona enumeration
BuildCompletePrompt(user_question, persona) ==
    LET r == retrieve_documents(heap, documents, user_question, persona, 10)
        outcome == build_complete_prompt(user_question, persona,
                       build_master_system_prompt, build_dynamic_prompt(persona),
                       build_rag_context(r.result, r.heap), r.result, r.heap)
    IN  /\ current_persona' = persona
        /\ heap' = r.heap
        /\ ret' = [op |-> "build_complete_prompt", question |-> user_question,
                   persona |-> persona, retrieved |-> r.result, value |-> outcome]
        /\ UNCHANGED <<documents, threads, chat_histories>>

Next ==
    \/ \E d \in new_documents : AddDocument(d)
    \/ \E p \in Personas : FilterDocuments(p)
    \/ \E q \in Queries, p \in Personas, k \in TopKs : RetrieveDocuments(q, p, k)

Spec == Init /\ [][Next]_vars

(***************************************************************************)
(* The caller of the prompt builder: documents are added to its store and  *)
(* prompts are built.                                                      *)
(***************************************************************************)
NextPrompt ==
    \/ \E d \in new_documents : AddDocument(d)
    \/ \E q \in PromptQuestions, p \in KnownPersonas : BuildCompletePrompt(q, p)

SpecPrompt == Init /\ [][NextPrompt]_vars

(***************************************************************************)
(* The caller that retrieves and then builds the context of what it got.   *)
(***************************************************************************)
\* DocumentRetriever.build_rag_context(retrieval_result), retrieval_result
\* the result of the retrieval just made
BuildRagContext ==
    /\ ret.op = "retrieve_documents"
    /\ ret' = [op |-> "build_rag_context", result |-> ret.value,
               value |-> build_rag_context(ret.value, heap)]
    /\ UNCHANGED <<heap, documents, current_persona, threads, chat_histories>>

NextContext ==
    \/ \E q \in Queries, p \in Personas, k \in TopKs : RetrieveDocuments(q, p, k)
    \/ BuildRagContext

SpecContext == Init /\ [][NextContext]_vars

(***************************************************************************)
(* The caller of the DocumentStore: documents are added, one of them under *)
(* an identifier the store already holds, looked up and listed, and        *)
(* retrievals rescore them.                                                *)
(***************************************************************************)
\* the Document objects this caller hands to add_document
StoreDocuments ==
    new_documents
    \cup {Document("policy_001", "Remote work policy implementation code", POLICY, <<1, 2>>)}

\* the identifiers this caller looks up
StoreIds == {"policy_001", "tech_001", "note_003", "missing_001", ""}

\* the retrievals this caller makes
StoreCalls == {
    [query |-> "What is the remote work policy?", persona |-> "HR Specialist", top_k |-> 10],
    [query |-> "JWT token authentication", persona |-> "Developer", top_k |-> 1],
    [query |-> "days uses", persona |-> UnknownPersona, top_k |-> 10]}

\* DocumentStore.get_document(doc_id)
GetDocument(doc_id) ==
    /\ ret' = [op |-> "get_document", doc_id |-> doc_id,
               value |-> get_document(documents, doc_id)]
    /\ UNCHANGED <<heap, documents, current_persona, threads, chat_histories>>

\* DocumentStore.get_all_documents()
GetAllDocuments ==
    /\ ret' = [op |-> "get_all_documents", value |-> get_all_documents(documents)]
    /\ UNCHANGED <<heap, documents, current_persona, threads, chat_histories>>

NextStore ==
    \/ \E d \in StoreDocuments : AddDocument(d)
    \/ \E id \in StoreIds : GetDocument(id)
    \/ GetAllDocuments
    \/ \E c \in StoreCalls : RetrieveDocuments(c.query, c.persona, c.top_k)

SpecStore == Init /\ [][NextStore]_vars

(***************************************************************************)
(* The chat handlers of app.py on the shared PersonaRAG instance: two      *)
(* requests are handled by two threads, interleaved between the call of    *)
(* set_persona and the call of generate_response.                          *)
(***************************************************************************)
ChatRoutes == {"/api/chat", "/send_message"}

\* api_chat / send_message: the request is read, message and persona are
\* present and persona is a value of the Persona enumeration
ChatRequest(t, route, persona) ==
    /\ threads[t].pc = "idle"
    /\ threads' = [threads EXCEPT ![t] =
           [pc |-> "set_persona", route |-> route, persona |-> persona]]
    /\ UNCHANGED <<heap, documents, current_persona, ret, chat_histories>>

\* personarag.set_persona(Persona(persona))
SetPersona(t) ==
    /\ threads[t].pc = "set_persona"
    /\ current_persona' = threads[t].persona
    /\ threads' = [threads EXCEPT ![t].pc = "generate_response"]
    /\ UNCHANGED <<heap, documents, ret, chat_histories>>

\* personarag.generate_response(message): the answer is generated for
\* self.current_persona as it is when the call reads it
GenerateResponse(t) ==
    /\ threads[t].pc = "generate_response"
    /\ threads' = [threads EXCEPT ![t] =
           [pc |-> "responded", route |-> threads[t].route,
            persona |-> threads[t].persona, generated_for |-> current_persona]]
    /\ UNCHANGED <<heap, documents, current_persona, ret, chat_histories>>

\* the response is sent and the thread takes the next request
ChatReturn(t) ==
    /\ threads[t].pc = "responded"
    /\ threads' = [threads EXCEPT ![t] = [pc |-> "idle"]]
    /\ UNCHANGED <<heap, documents, current_persona, ret, chat_histories>>

NextChat ==
    \/ \E t \in ThreadIds, r \in ChatRoutes, p \in KnownPersonas : ChatRequest(t, r, p)
    \/ \E t \in ThreadIds : SetPersona(t)
    \/ \E t \in ThreadIds : GenerateResponse(t)
    \/ \E t \in ThreadIds : ChatReturn(t)

SpecChat == Init /\ [][NextChat]_vars

(***************************************************************************)
(* The chat histories of app.py: messages are saved, read and cleared for  *)
(* pairs of a user id and a persona.                                       *)
(***************************************************************************)
MaxMessages == 2

\* the user ids, personas and message contents of the requests; the routes
\* take them as given, without a test of their characters
ChatUsers == {"a", "a_b"}
ChatPersonas == {"General", "b_General"}
ChatContents == {"hello", "thanks"}

\* f"{user_id}_{persona}"
get_user_chat_key(user_id, persona) == user_id \o "_" \o persona

\* chat_histories.get(key, [])
get_chat_history(histories, user_id, persona) ==
    LET key == get_user_chat_key(user_id, persona)
    IN  IF key \in DOMAIN histories THEN histories[key] ELSE <<>>

\* chat_histories[key] = value
HistorySet(histories, key, value) ==
    [k \in DOMAIN histories \cup {key} |-> IF k = key THEN value ELSE histories[k]]

save_chat_message(histories, user_id, persona, message_type, content, timestamp) ==
    LET key == get_user_chat_key(user_id, persona)
        created == IF key \notin DOMAIN histories
                   THEN HistorySet(histories, key, <<>>) ELSE histories
    IN  HistorySet(created, key,
            Append(created[key],
                   [type |-> message_type, content |-> content, timestamp |-> timestamp]))

clear_chat_history(histories, user_id, persona) ==
    LET key == get_user_chat_key(user_id, persona)
    IN  IF key \in DOMAIN histories THEN HistorySet(histories, key, <<>>) ELSE histories

\* api_save_message / send_message: save_chat_message(user_id, persona, ...)
SaveChatMessage(user_id, persona, message_type, content) ==
    /\ Len(get_chat_history(chat_histories, user_id, persona)) < MaxMessages
    /\ chat_histories' = save_chat_message(chat_histories, user_id, persona,
                                           message_type, content, "t")
    /\ ret' = [op |-> "save_chat_message", user_id |-> user_id, persona |-> persona]
    /\ UNCHANGED <<heap, documents, current_persona, threads>>

\* api_clear_history / clear_chat: clear_chat_history(user_id, persona)
ClearChatHistory(user_id, persona) ==
    /\ chat_histories' = clear_chat_history(chat_histories, user_id, persona)
    /\ ret' = [op |-> "clear_chat_history", user_id |-> user_id, persona |-> persona]
    /\ UNCHANGED <<heap, documents, current_persona, threads>>

\* api_chat_history: get_chat_history(user_id, persona)
GetChatHistory(user_id, persona) ==
    /\ ret' = [op |-> "get_chat_history", user_id |-> user_id, persona |-> persona,
               value |-> get_chat_history(chat_histories, user_id, persona)]
    /\ UNCHANGED <<heap, documents, current_persona, threads, chat_histories>>

NextHistory ==
    \/ \E u \in ChatUsers, p \in ChatPersonas, m \in {"user", "assistant"},
          c \in ChatContents : SaveChatMessage(u, p, m, c)
    \/ \E u \in ChatUsers, p \in ChatPersonas : ClearChatHistory(u, p)
    \/ \E u \in ChatUsers, p \in ChatPersonas : GetChatHistory(u, p)

SpecHistory == Init /\ [][NextHistory]_vars

(***************************************************************************)
(* calculate_relevance as a function of its arguments: the arguments are   *)
(* drawn by the initial state and one action applies the function.         *)
(***************************************************************************)
InitScore ==
    /\ heap = sample_docs
    /\ documents = [i \in 1..Len(sample_docs) |-> [key |-> sample_docs[i].id, ref |-> i]]
    /\ current_persona = "General"
    /\ threads = Idle
    /\ chat_histories = NoHistories
    /\ \E d \in ScoreDocuments, q \in ScoreQueries, p \in Personas :
           ret = [op |-> "arguments", document |-> d, query |-> q, persona |-> p]

CalculateRelevance ==
    /\ ret.op = "arguments"
    /\ ret' = [ret EXCEPT !.op = "calculate_relevance"]
               @@ [value |-> relevance(ret.document, ret.query, ret.persona)]
    /\ UNCHANGED <<heap, documents, current_persona, threads, chat_histories>>

NextScore == CalculateRelevance

SpecScore == InitScore /\ [][NextScore]_vars

(***************************************************************************)
(* Concurrent calls of retrieve_documents on one DocumentStore.  A call    *)
(* is interleaved with the other at each turn of its scoring loop, at its  *)
(* sort and at its filter.                                                 *)
(***************************************************************************)
ConcurrentCalls == {
    [query |-> "What is the remote work policy?", persona |-> "Executive", top_k |-> 10],
    [query |-> "days uses", persona |-> "Student", top_k |-> 10],
    [query |-> "JWT token authentication", persona |-> UnknownPersona, top_k |-> 10]}

\* line 281: the call starts and fetches the documents
Call(t, c) ==
    /\ threads[t].pc = "idle"
    /\ threads' = [threads EXCEPT ![t] =
           [pc |-> "score", query |-> c.query, persona |-> c.persona,
            top_k |-> c.top_k, all_docs |-> get_all_documents(documents),
            i |-> 1, scored_docs |-> <<>>]]
    /\ UNCHANGED <<heap, documents, current_persona, ret, chat_histories>>

\* lines 285-289: one turn of the scoring loop
ScoreStep(t) ==
    LET th == threads[t]
    IN  /\ th.pc = "score"
        /\ th.i <= Len(th.all_docs)
        /\ LET st == ScoreOne([heap |-> heap, scored_docs |-> th.scored_docs],
                              th.all_docs[th.i], th.query, th.persona)
           IN  /\ heap' = st.heap
               /\ threads' = [threads EXCEPT ![t].scored_docs = st.scored_docs,
                                             ![t].i = th.i + 1]
        /\ UNCHANGED <<documents, current_persona, ret, chat_histories>>

Returned(th, result, h) ==
    [pc |-> "done", query |-> th.query, persona |-> th.persona, top_k |-> th.top_k,
     result |-> result, view |-> ResultView(result, h)]

\* lines 291-302: the empty result, or the sort
SortStep(t) ==
    LET th == threads[t]
    IN  /\ th.pc = "score"
        /\ th.i > Len(th.all_docs)
        /\ threads' = [threads EXCEPT ![t] =
               IF th.scored_docs = <<>>
               THEN Returned(th, NoRelevantDocuments(th.query, th.persona), heap)
               ELSE [th EXCEPT !.pc = "filter",
                               !.scored_docs = SortDesc(th.scored_docs, heap)]]
        /\ UNCHANGED <<heap, documents, current_persona, ret, chat_histories>>

\* lines 304-313: the filter and the result
FilterStep(t) ==
    LET th == threads[t]
    IN  /\ th.pc = "filter"
        /\ threads' = [threads EXCEPT ![t] =
               Returned(th, FilterAndBuild(th.scored_docs, th.query, th.persona,
                                           th.top_k, heap), heap)]
        /\ UNCHANGED <<heap, documents, current_persona, ret, chat_histories>>

NextConc ==
    \/ \E t \in ThreadIds, c \in ConcurrentCalls : Call(t, c)
    \/ \E t \in ThreadIds : ScoreStep(t)
    \/ \E t \in ThreadIds : SortStep(t)
    \/ \E t \in ThreadIds : FilterStep(t)

SpecConc == Init /\ [][NextConc]_vars

\* what the call of a thread returns when it runs alone on the store
AloneView(th) ==
    LET r == retrieve_documents(heap, documents, th.query, th.persona, th.top_k)
    IN  ResultView(r.result, r.heap)

(***************************************************************************)
(* Properties.                                                             *)
(***************************************************************************)
lower_table == [c \in Contents |-> Lower(c)]

\* the documents and the persona of the last filter or retrieval
IsOutput == ret.op \in {"filter_documents", "retrieve_documents"}
OutputDocuments ==
    IF ret.op = "filter_documents" THEN ret.value ELSE ret.value.documents
OutputPersona ==
    IF ret.op = "filter_documents" THEN ret.persona ELSE ret.value.persona
IsRetrieval == ret.op = "retrieve_documents"

\* the documents of the store, as the objects they are now
StoredDocuments == {heap[documents[i].ref] : i \in 1..Len(documents)}

\* the content holds an exclude-keyword of the persona
MentionsExcluded(content, persona) ==
    \E k \in Range(persona_filters[persona].exclude_keywords) :
        Contains(lower_table[content], k)

\* the store holds the sample corpus and nothing else
SampleCorpus == Len(heap) = Len(sample_docs)

\* C1: for every document, query and persona, known or not,
\* calculate_relevance returns a value between 0.0 and 1.0
C1_RelevanceInUnitInterval ==
    ret.op = "calculate_relevance"
        => FLeq(FZero, ret.value) /\ FLeq(ret.value, FOne)

\* a call in which the bonuses exceed 1.0 and the value returned is 1.0
C1_Witness ==
    /\ ret.op = "calculate_relevance"
    /\ ret.query = "JWT token authentication"
    /\ ret.value = FOne

\* C2: for a known persona no document whose content holds an
\* exclude-keyword of the persona is in the output of filter_documents or in
\* the documents of a result of retrieve_documents, whatever its score
C2_ExclusionAbsolute ==
    (IsOutput /\ OutputPersona \in KnownPersonas)
        => \A i \in 1..Len(OutputDocuments) :
               ~MentionsExcluded(heap[OutputDocuments[i]].content, OutputPersona)

\* a retrieval for a known persona that returns documents while a stored
\* document holding an exclude-keyword scores 0.7 or more
C2_Witness ==
    /\ IsRetrieval
    /\ ret.value.persona \in KnownPersonas
    /\ ret.value.documents # <<>>
    /\ \E d \in StoredDocuments :
           /\ MentionsExcluded(d.content, ret.value.persona)
           /\ FLeq(<<7, 10>>, d.relevance_score)

\* C3: for a known persona filter_documents and retrieve_documents return
\* at most max_documents of the persona: Executive 3, Developer 5,
\* HR Specialist 4, Student 3, General 4
C3_Cap == [Executive |-> 3, Developer |-> 5, Student |-> 3, General |-> 4]
          @@ ("HR Specialist" :> 4)

C3_CapRespected ==
    (IsOutput /\ OutputPersona \in KnownPersonas)
        => Len(OutputDocuments) <= C3_Cap[OutputPersona]

\* a retrieval that returns max_documents documents while more stored
\* documents than that satisfy the three rules of the filter
C3_Witness ==
    /\ IsRetrieval
    /\ ret.value.persona \in KnownPersonas
    /\ Len(ret.value.documents) = C3_Cap[ret.value.persona]
    /\ Cardinality({d \in StoredDocuments :
            /\ FLess(<<1, 10>>, d.relevance_score)
            /\ ~MentionsExcluded(d.content, ret.value.persona)
            /\ ~FLess(d.relevance_score, persona_filters[ret.value.persona].min_relevance)
            /\ \/ d.doc_type \in Range(persona_filters[ret.value.persona].preferred_types)
               \/ FLeq(<<7, 10>>, d.relevance_score)})
       > C3_Cap[ret.value.persona]

\* some stored document scores above the floor of 0.1 for the last retrieval
SomeAboveFloor ==
    \E d \in StoredDocuments :
        FLess(<<1, 10>>, relevance(d, ret.value.query, ret.value.persona))

\* C4, as claimed: whenever retrieve_documents returns no document, the
\* metadata carries the reason code "no_relevant_documents"
C4_EmptyHasReason ==
    (IsRetrieval /\ ret.value.documents = <<>>)
        => ret.value.retrieval_metadata = [reason |-> "no_relevant_documents"]

\* C4, amended: when retrieve_documents returns no document, the metadata
\* carries the reason code "no_relevant_documents" if no document scores
\* above 0.1, and otherwise carries avg_relevance = 0 and no reason code
C4_EmptyReasonOrZeroAverage ==
    (IsRetrieval /\ ret.value.documents = <<>>)
        => ret.value.retrieval_metadata =
               IF SomeAboveFloor THEN [avg_relevance |-> FZero]
                                 ELSE [reason |-> "no_relevant_documents"]

\* a retrieval whose documents all fall to the persona filter
C4_Witness ==
    /\ IsRetrieval
    /\ ret.value.documents = <<>>
    /\ ret.top_k = 10
    /\ SomeAboveFloor

\* C5: when no stored document scores above 0.1 for the query,
\* retrieve_documents returns, for any persona, a result with no document,
\* total_retrieved = 0 and the reason "no_relevant_documents"
C5_NoMatchResult ==
    (IsRetrieval /\ ~SomeAboveFloor)
        => /\ DOMAIN ret.value = {"documents", "query", "persona",
                                  "total_retrieved", "retrieval_metadata"}
           /\ ret.value.documents = <<>>
           /\ ret.value.total_retrieved = 0
           /\ ret.value.retrieval_metadata = [reason |-> "no_relevant_documents"]

\* the retrieval of "zzqqxx nonsense unmatched" for an unknown persona
C5_Witness ==
    /\ IsRetrieval
    /\ ret.value.query = "zzqqxx nonsense unmatched"
    /\ ret.value.persona = UnknownPersona
    /\ ret.value.documents = <<>>

\* C6: a call of retrieve_documents that follows a call with the same
\* query, persona and top_k, with no document added in between, returns the
\* same identifiers in the same order, the same scores, the same
\* total_retrieved and the same metadata
C6_Idempotent ==
    [][(/\ IsRetrieval
        /\ IsRetrieval'
        /\ ret'.top_k = ret.top_k
        /\ ret'.value.query = ret.value.query
        /\ ret'.value.persona = ret.value.persona
        /\ documents' = documents)
       => ResultView(ret'.value, heap') = ResultView(ret.value, heap)]_vars

\* a retrieval that returned two documents or more and left its scores on
\* the documents: the state a repeated call starts from and ends in
C6_Witness ==
    /\ IsRetrieval
    /\ Len(ret.value.documents) >= 2
    /\ \A d \in StoredDocuments :
           d.relevance_score = relevance(d, ret.value.query, ret.value.persona)
    /\ \E d \in StoredDocuments : d.relevance_score # FZero

\* C7: a call of retrieve_documents that runs concurrently with another
\* returns the documents, order, scores and avg_relevance it returns alone
C7_ConcurrentAsAlone ==
    \A t \in ThreadIds :
        threads[t].pc = "done" => threads[t].view = AloneView(threads[t])

\* C8: build_complete_prompt returns PromptComponents whose metadata holds
\* the persona, the question, the number of retrieved documents, a
\* retrieval method tag, the prompt length and the identifiers of the
\* retrieved documents in retrieval order; it never raises
C8_PromptBuilt ==
    ret.op = "build_complete_prompt"
        => /\ ~IsRaised(ret.value)
           /\ DOMAIN ret.value.metadata =
                  {"persona", "question", "documents_retrieved",
                   "retrieval_method", "prompt_length", "retrieved_doc_ids"}
           /\ ret.value.metadata.persona = ret.persona
           /\ ret.value.metadata.question = ret.question
           /\ ret.value.metadata.documents_retrieved = Len(ret.retrieved.documents)
           /\ ret.value.metadata.retrieved_doc_ids =
                  [i \in 1..Len(ret.retrieved.documents) |->
                      heap[ret.retrieved.documents[i]].id]

\* C9: on the sample corpus retrieve_documents("What is the remote work
\* policy?", "Executive") returns a non-empty result whose first document
\* is policy_001, with avg_relevance > 0.3
C9_ScenarioA ==
    (/\ IsRetrieval
     /\ SampleCorpus
     /\ ret.value.query = "What is the remote work policy?"
     /\ ret.value.persona = "Executive"
     /\ ret.top_k = 10)
        => /\ ret.value.documents # <<>>
           /\ heap[ret.value.documents[1]].id = "policy_001"
           /\ FLess(<<3, 10>>, ret.value.retrieval_metadata.avg_relevance)

\* C10: on the sample corpus retrieve_documents("How does the
\* authentication system work?", "Developer") returns tech_001 first, and
\* tech_001 scores strictly more for that query under Developer than
\* under HR Specialist
C10_ScenarioB ==
    (/\ IsRetrieval
     /\ SampleCorpus
     /\ ret.value.query = "How does the authentication system work?"
     /\ ret.value.persona = "Developer"
     /\ ret.top_k = 10)
        => /\ ret.value.documents # <<>>
           /\ heap[ret.value.documents[1]].id = "tech_001"
           /\ FLess(relevance(sample_docs[2], ret.value.query, "HR Specialist"),
                    relevance(sample_docs[2], ret.value.query, "Developer"))

\* C11: build_complete_prompt("What is the company culture?", General)
\* returns components whose final prompt string is the master block, a
\* blank line, the General style block, a blank line, the context block, a
\* blank line, "User Question:", a newline and the question, and ends with
\* the question
C11_ScenarioD ==
    (/\ ret.op = "build_complete_prompt"
     /\ ret.question = "What is the company culture?"
     /\ ret.persona = "General")
        => /\ ~IsRaised(ret.value)
           /\ get_final_prompt_string(ret.value) =
                  build_master_system_prompt \o "\n\n"
                  \o build_dynamic_prompt("General") \o "\n\n"
                  \o build_rag_context(ret.retrieved, heap)
                  \o "\n\nUser Question:\n" \o ret.question
           /\ EndsWith(get_final_prompt_string(ret.value), ret.question)

\* the query leaves no candidate term: each of its tokens is a stop word or
\* has two characters or fewer once its punctuation is stripped
NoCandidateTerm(query) ==
    \A token \in Range(Split(Lower(query))) :
        token \in common_words \/ Len(Strip(token, {"?", ".", "!"})) <= 2
ZeroTermQueries == {q \in Queries : NoCandidateTerm(q)}

\* C12: for a query that leaves no candidate term calculate_relevance
\* returns 0.0 for every stored document, whatever the persona, and
\* retrieve_documents returns the empty result with the reason
\* "no_relevant_documents"
C12_ZeroTermsScoreZero ==
    (IsRetrieval /\ ret.value.query \in ZeroTermQueries)
        => /\ \A d \in StoredDocuments :
                  /\ d.relevance_score = FZero
                  /\ relevance(d, ret.value.query, ret.value.persona) = FZero
           /\ ret.value.documents = <<>>
           /\ ret.value.total_retrieved = 0
           /\ ret.value.retrieval_metadata = [reason |-> "no_relevant_documents"]

\* a retrieval for a query whose tokens are stop words and short tokens, on
\* a store that holds an added document
C12_Witness ==
    /\ IsRetrieval
    /\ ret.value.query = "is? a to"
    /\ ret.value.query \in ZeroTermQueries
    /\ "" \in ZeroTermQueries
    /\ "the is a" \in ZeroTermQueries
    /\ Len(heap) > Len(sample_docs)

\* the content has no word: it is empty or holds whitespace only
NoWords(content) ==
    \A i \in 1..Len(content) : CharAt(content, i) \in {" ", "\t", "\n", "\r"}

\* C13: for a document whose content is empty or has no word
\* calculate_relevance returns 0.0, a number and not a division error, for
\* every query and persona
C13_EmptyContentScoreZero ==
    (ret.op = "calculate_relevance" /\ NoWords(ret.document.content))
        => /\ ret.value[2] # 0
           /\ ret.value = FZero

\* a call on a document of whitespace only with a query that has candidate
\* terms, for a persona whose preferred types hold the type of the document
C13_Witness ==
    /\ ret.op = "calculate_relevance"
    /\ ret.document.content # ""
    /\ NoWords(ret.document.content)
    /\ ret.query = "JWT token authentication"
    /\ ret.persona = "General"
    /\ ret.document.doc_type \in Range(persona_filters["General"].preferred_types)

\* the addresses of the stored documents that score above the floor of 0.1
AboveFloor ==
    {documents[i].ref : i \in {j \in 1..Len(documents) :
        FLess(<<1, 10>>, heap[documents[j].ref].relevance_score)}}

\* C14: for a persona that is none of the five, filter_documents returns
\* its input list as it is, calculate_relevance adds a keyword bonus of 0
\* and a type bonus of 0, and retrieve_documents returns the top_k
\* documents that score above 0.1
C14_UnknownPersonaPassThrough ==
    /\ (ret.op = "filter_documents" /\ ret.persona \notin KnownPersonas)
           => ret.value = ret.input
    /\ (IsRetrieval /\ ret.value.persona \notin KnownPersonas)
           => LET returned == Range(ret.value.documents)
              IN  /\ Len(ret.value.documents) =
                         IF ret.top_k < Cardinality(AboveFloor)
                         THEN ret.top_k ELSE Cardinality(AboveFloor)
                  /\ Cardinality(returned) = Len(ret.value.documents)
                  /\ returned \subseteq AboveFloor
                  /\ \A a \in returned, b \in AboveFloor \ returned :
                         FLeq(heap[b].relevance_score, heap[a].relevance_score)
                  /\ \A d \in StoredDocuments :
                         /\ keyword_bonus(ret.value.persona, lower_table[d.content]) = 0
                         /\ type_bonus(ret.value.persona, d.doc_type) = 0

\* a retrieval for an unknown persona that returns five documents, more
\* than the filter of Executive, Student, HR Specialist or General lets
\* through, one of them holding an exclude-keyword of General
C14_Witness ==
    /\ IsRetrieval
    /\ ret.value.persona = UnknownPersona
    /\ ret.top_k = 10
    /\ Len(ret.value.documents) >= 5
    /\ \E i \in 1..Len(ret.value.documents) :
           MentionsExcluded(heap[ret.value.documents[i]].content, "General")

\* C15: for a known persona a document whose type is none of the preferred
\* types of the persona is in the output of filter_documents only if its
\* relevance score is strictly greater than 0.7
C15_TypePreferenceStrict ==
    (ret.op = "filter_documents" /\ ret.persona \in KnownPersonas)
        => \A i \in 1..Len(ret.value) :
               \/ heap[ret.value[i]].doc_type
                      \in Range(persona_filters[ret.persona].preferred_types)
               \/ FLess(<<7, 10>>, heap[ret.value[i]].relevance_score)

\* C16: every document of a result of retrieve_documents scores strictly
\* more than 0.1 and, for a known persona, at least min_relevance of the
\* persona: Executive 0.3, Developer 0.4, HR Specialist 0.3, Student 0.2,
\* General 0.25; for an unknown persona the result is the list handed to
\* filter_documents, so no document at or below 0.1 is handed to it
C16_MinRelevance ==
    [Executive |-> <<3, 10>>, Developer |-> <<2, 5>>, Student |-> <<1, 5>>,
     General |-> <<1, 4>>] @@ ("HR Specialist" :> <<3, 10>>)

C16_ScoreFloors ==
    IsRetrieval
        => \A i \in 1..Len(ret.value.documents) :
               LET score == heap[ret.value.documents[i]].relevance_score
               IN  /\ FLess(<<1, 10>>, score)
                   /\ ret.value.persona \in KnownPersonas
                          => FLeq(C16_MinRelevance[ret.value.persona], score)

\* a retrieval for a known persona that returns documents and leaves out a
\* stored document that scores above 0.1 and below min_relevance, and whose
\* store holds a document that scores 0.1 or less
C16_Witness ==
    /\ IsRetrieval
    /\ ret.value.persona \in KnownPersonas
    /\ ret.value.documents # <<>>
    /\ \E a \in AboveFloor \ Range(ret.value.documents) :
           FLess(heap[a].relevance_score, C16_MinRelevance[ret.value.persona])
    /\ \E d \in StoredDocuments : FLeq(d.relevance_score, <<1, 10>>)

\* C17: the documents of every result of retrieve_documents are in order of
\* non-increasing relevance score, for known and unknown personas, hold no
\* document twice, and total_retrieved is the length of the list
C17_OrderedDistinctCounted ==
    IsRetrieval
        => LET docs == ret.value.documents
           IN  /\ \A i \in 1..Len(docs) - 1 :
                      FLeq(heap[docs[i + 1]].relevance_score, heap[docs[i]].relevance_score)
               /\ \A i, j \in 1..Len(docs) :
                      i # j => /\ docs[i] # docs[j]
                               /\ heap[docs[i]].id # heap[docs[j]].id
               /\ ret.value.total_retrieved = Len(docs)

\* a retrieval for an unknown persona that returns three documents or
\* more, of distinct scores, in an order that is not the order of the store
C17_Witness ==
    /\ IsRetrieval
    /\ ret.value.persona = UnknownPersona
    /\ Len(ret.value.documents) >= 3
    /\ \E i \in 1..Len(ret.value.documents) - 1 :
           /\ ret.value.documents[i] > ret.value.documents[i + 1]
           /\ FLess(heap[ret.value.documents[i + 1]].relevance_score,
                    heap[ret.value.documents[i]].relevance_score)

\* C18: retrieve_documents returns at most top_k documents, and each of
\* them is among the top_k highest-scoring documents above the floor of 0.1:
\* fewer than top_k documents above the floor score more than it does
C18_TopKSlice ==
    IsRetrieval
        => /\ Len(ret.value.documents) <= ret.top_k
           /\ \A a \in Range(ret.value.documents) :
                  Cardinality({b \in AboveFloor :
                      FLess(heap[a].relevance_score, heap[b].relevance_score)})
                  < ret.top_k

\* a retrieval with top_k = 1 for a known persona that returns nothing,
\* the highest-scoring document being rejected by the filter, while a
\* document ranked below it satisfies every rule of the filter
C18_Witness ==
    /\ IsRetrieval
    /\ ret.top_k = 1
    /\ ret.value.persona \in KnownPersonas
    /\ ret.value.documents = <<>>
    /\ \E b \in AboveFloor :
           /\ ~MentionsExcluded(heap[b].content, ret.value.persona)
           /\ FLeq(C16_MinRelevance[ret.value.persona], heap[b].relevance_score)
           /\ \/ heap[b].doc_type
                     \in Range(persona_filters[ret.value.persona].preferred_types)
              \/ FLeq(<<7, 10>>, heap[b].relevance_score)

\* C19: when retrieve_documents returns documents, avg_relevance is the sum
\* of their relevance scores divided by their count, and so lies between
\* the lowest and the highest of them; when the filter leaves no document
\* it is 0
C19_AverageOfReturned ==
    IsRetrieval
        => LET docs == ret.value.documents
               scores == [i \in 1..Len(docs) |-> heap[docs[i]].relevance_score]
               meta == ret.value.retrieval_metadata
           IN  IF docs # <<>>
               THEN /\ DOMAIN meta = {"avg_relevance"}
                    /\ FMul(meta.avg_relevance, <<Len(docs), 1>>) = FSum(scores)
                    /\ \E i \in 1..Len(docs) : FLeq(scores[i], meta.avg_relevance)
                    /\ \E i \in 1..Len(docs) : FLeq(meta.avg_relevance, scores[i])
               ELSE AboveFloor # {}
                        => /\ DOMAIN meta = {"avg_relevance"}
                           /\ meta.avg_relevance = FZero

\* a retrieval that returns two documents or more of different scores, its
\* average strictly between the lowest and the highest
C19_Witness ==
    /\ IsRetrieval
    /\ Len(ret.value.documents) >= 2
    /\ FLess(heap[ret.value.documents[Len(ret.value.documents)]].relevance_score,
             ret.value.retrieval_metadata.avg_relevance)
    /\ FLess(ret.value.retrieval_metadata.avg_relevance,
             heap[ret.value.documents[1]].relevance_score)

\* C20: no term that calculate_relevance takes from a token of the query is
\* a stop word or has two characters or fewer, also when the token ends in
\* punctuation
C20_NoStopWordTerm ==
    ret.op = "calculate_relevance"
        => \A term \in Range(query_terms(ret.query)) :
               term \notin common_words /\ Len(term) > 2

\* the variant the specification names for one retained term
C21_Variant(term) ==
    LET n == Len(term)
    IN  IF n >= 3 /\ SubSeq(term, n - 2, n) = "ies" THEN SubSeq(term, 1, n - 3) \o "y"
        ELSE IF n >= 1 /\ SubSeq(term, n, n) = "s" THEN SubSeq(term, 1, n - 1)
        ELSE term \o "s"

ScoredTotal == total_matches(expanded_terms(ret.query), lower_table[ret.document.content])
ScoredWords == Len(Split(lower_table[ret.document.content]))
ScoredBonus ==
    topic_bonus(Lower(ret.query), lower_table[ret.document.content])
    + keyword_bonus(ret.persona, lower_table[ret.document.content])
    + type_bonus(ret.persona, ret.document.doc_type)

\* query_coverage < 0.3, or matched_density < 0.01
BelowCoverage ==
    /\ expanded_terms(ret.query) # {}
    /\ 10 * ScoredTotal < 3 * (2 * Cardinality(expanded_terms(ret.query)))
BelowDensity ==
    /\ expanded_terms(ret.query) # {}
    /\ ScoredWords > 0
    /\ 100 * ScoredTotal < ScoredWords

\* C22: calculate_relevance returns exactly 0 whenever query_coverage < 0.3
\* or matched_density < 0.01, whatever the topic, keyword and type bonuses
\* of the document are
C22_CutoffsDominate ==
    (ret.op = "calculate_relevance" /\ (BelowCoverage \/ BelowDensity))
        => ret.value = FZero

\* a document scored 0 under the coverage cutoff although its bonuses sum
\* to 1.0 or more
C22_Witness ==
    /\ ret.op = "calculate_relevance"
    /\ BelowCoverage
    /\ ScoredTotal > 0
    /\ ScoredBonus >= 10
    /\ ret.value = FZero

\* the weight of one candidate term as the specification words it: 2 when
\* an occurrence is delimited by spaces or by the ends of the string, 1 when
\* the term occurs only inside longer runs, 0 when it does not occur
C23_Weight(term, doc) ==
    LET n == Len(term)
        occurrences == {i \in 1..(Len(doc) - n + 1) : SubSeq(doc, i, i + n - 1) = term}
        delimited(i) ==
            /\ i = 1 \/ SubSeq(doc, i - 1, i - 1) = " "
            /\ i + n - 1 = Len(doc) \/ SubSeq(doc, i + n, i + n) = " "
    IN  IF occurrences = {} THEN 0
        ELSE IF \E i \in occurrences : delimited(i) THEN 2
        ELSE 1

RECURSIVE C23_TotalWeight(_, _)
C23_TotalWeight(terms, doc) ==
    IF terms = {} THEN 0
    ELSE LET t == CHOOSE x \in terms : TRUE
         IN  C23_Weight(t, doc) + C23_TotalWeight(terms \ {t}, doc)

\* the three bonuses of the specification, in tenths
C23_Both(word, query, doc) == IF Contains(query, word) /\ Contains(doc, word) THEN 1 ELSE 0
C23_TopicBonus(query, doc) ==
    5 * C23_Both("authentication", query, doc) + 3 * C23_Both("system", query, doc)
    + 4 * C23_Both("jwt", query, doc) + 3 * C23_Both("token", query, doc)
    + 2 * C23_Both("cybersecurity", query, doc)
C23_KeywordBonus(persona, doc) ==
    IF persona \in KnownPersonas
    THEN Cardinality({i \in DOMAIN persona_filters[persona].content_keywords :
                         Contains(doc, persona_filters[persona].content_keywords[i])})
    ELSE 0
C23_TypeBonus(persona, doc_type) ==
    IF /\ persona \in KnownPersonas
       /\ \E i \in DOMAIN persona_filters[persona].preferred_types :
              persona_filters[persona].preferred_types[i] = doc_type
    THEN 2 ELSE 0

\* the quantities of the document, query and persona last scored
C23_Doc == lower_table[ret.document.content]
C23_Terms == expanded_terms(ret.query)
C23_Total == C23_TotalWeight(C23_Terms, C23_Doc)
C23_Words == Len(Split(C23_Doc))
C23_Bonus ==
    C23_TopicBonus(Lower(ret.query), C23_Doc) + C23_KeywordBonus(ret.persona, C23_Doc)
    + C23_TypeBonus(ret.persona, ret.document.doc_type)

\* coverage >= 0.3 and density >= 0.01
C23_PassesCutoffs ==
    /\ C23_Terms # {}
    /\ C23_Words > 0
    /\ 10 * C23_Total >= 3 * (2 * Cardinality(C23_Terms))
    /\ 100 * C23_Total >= C23_Words

\* C23: for a document that passes both cutoffs the score is
\* min(1.0, 0.4*coverage + 0.2*density + topic + keyword + type bonus), with
\* coverage = total weight / (2 * number of candidate terms), in [0, 1],
\* density = total weight / word count, and the weights and bonuses as the
\* specification lists them
C23_ScoreFormula ==
    (ret.op = "calculate_relevance" /\ C23_PassesCutoffs)
        => /\ C23_Total <= 2 * Cardinality(C23_Terms)
           /\ ret.value =
                  FMin(FOne,
                       FAdd(FAdd(Frac(C23_Total, 5 * Cardinality(C23_Terms)),
                                 Frac(C23_Total, 5 * C23_Words)),
                            Frac(C23_Bonus, 10)))

\* a document scored strictly between 0 and 1 with a delimited term, a term
\* found only inside a longer run, and a bonus
C23_Witness ==
    /\ ret.op = "calculate_relevance"
    /\ C23_PassesCutoffs
    /\ \E t \in C23_Terms : C23_Weight(t, C23_Doc) = 2
    /\ \E t \in C23_Terms : C23_Weight(t, C23_Doc) = 1
    /\ C23_Bonus > 0
    /\ FLess(FZero, ret.value)
    /\ FLess(ret.value, FOne)

\* the addresses of the documents of the store
StoredRefs == {documents[i].ref : i \in 1..Len(documents)}

\* C24: after retrieve_documents(query, persona, top_k) every document of
\* the store, returned or discarded, carries calculate_relevance(document,
\* query, persona) in relevance_score; and with documents added with a score
\* in [0, 1], the score of every stored document is in [0, 1] after any
\* sequence of add_document and retrieve_documents
C24_AllRescored ==
    /\ \A a \in StoredRefs :
           FLeq(FZero, heap[a].relevance_score) /\ FLeq(heap[a].relevance_score, FOne)
    /\ IsRetrieval
           => \A a \in StoredRefs :
                  heap[a].relevance_score
                      = relevance(heap[a], ret.value.query, ret.value.persona)

\* a retrieval on a store with an added document that returns documents,
\* leaves out a document scored above the floor and leaves out one scored 0
C24_Witness ==
    /\ IsRetrieval
    /\ Len(documents) > Len(sample_docs)
    /\ ret.value.documents # <<>>
    /\ \E a \in StoredRefs \ Range(ret.value.documents) :
           FLess(MinimumThreshold, heap[a].relevance_score)
    /\ \E a \in StoredRefs \ Range(ret.value.documents) :
           heap[a].relevance_score = FZero

\* the text the specification gives for the documents i..n of a result:
\* number, content, score and type tag, and an empty line after each
RECURSIVE C25_Listing(_, _)
C25_Listing(list, i) ==
    IF i > Len(list) THEN ""
    ELSE "Document " \o IntToStr(i) \o ":\n"
         \o heap[list[i]].content \o "\n"
         \o "[Relevance: " \o FormatFixed2(heap[list[i]].relevance_score)
         \o ", Type: " \o heap[list[i]].doc_type \o "]\n\n"
         \o C25_Listing(list, i + 1)

\* C25: build_rag_context returns exactly "No relevant documents found for
\* this query." for a result without documents; otherwise the fixed header,
\* every document of the result once, in result order, numbered from 1, with
\* its content, its relevance score and its type tag, and the fixed closing
\* line
C25_ContextText ==
    ret.op = "build_rag_context"
        => ret.value =
               IF ret.result.documents = <<>>
               THEN "No relevant documents found for this query."
               ELSE "Use the following retrieved documents to answer the question.\n"
                    \o "These documents are selected specifically for the current persona.\n"
                    \o "\nRetrieved Context:\n"
                    \o C25_Listing(ret.result.documents, 1)
                    \o "Only use this context to generate the answer."

\* the context built of a result of two documents or more
C25_Witness ==
    /\ ret.op = "build_rag_context"
    /\ Len(ret.result.documents) >= 2
    /\ Contains(ret.value, "\nDocument 2:\n")

\* the identifiers ever added, and the object added last under an identifier
\* (the heap holds the Document objects in the order they were added)
AddedIds == {heap[a].id : a \in 1..Len(heap)}
LastAdded(id) ==
    CHOOSE a \in 1..Len(heap) :
        /\ heap[a].id = id
        /\ \A b \in 1..Len(heap) : heap[b].id = id => b <= a

\* C26: documents are never deleted and identifiers stay unique: after any
\* sequence of add_document, get_document, get_all_documents and
\* retrieve_documents every identifier ever added is present,
\* get_document(id) is the document added last under id, whose id field is
\* id, get_document of an identifier never added is None, and
\* get_all_documents holds exactly one document for each identifier
C26_StoreKeepsDocuments ==
    /\ \A id \in AddedIds :
           /\ get_document(documents, id) # None
           /\ get_document(documents, id) = LastAdded(id)
           /\ heap[get_document(documents, id)].id = id
           /\ Cardinality({i \in 1..Len(get_all_documents(documents)) :
                  heap[get_all_documents(documents)[i]].id = id}) = 1
    /\ \A id \in StoreIds \ AddedIds : get_document(documents, id) = None
    /\ Len(get_all_documents(documents)) = Cardinality(AddedIds)
    /\ ret.op = "get_document"
           => ret.value = IF ret.doc_id \in AddedIds THEN LastAdded(ret.doc_id) ELSE None
    /\ ret.op = "get_all_documents"
           => /\ Len(ret.value) = Cardinality(AddedIds)
              /\ \A id \in AddedIds : \E i \in 1..Len(ret.value) : heap[ret.value[i]].id = id

\* get_document returns the document added under an identifier the store
\* already held
C26_Witness ==
    /\ ret.op = "get_document"
    /\ ret.value # None
    /\ \E a \in 1..Len(heap) : a # ret.value /\ heap[a].id = ret.doc_id
    /\ heap[ret.value].content = "Remote work policy implementation code"

\* C27: every value calculate_relevance returns other than 0 is at least
\* 0.4*0.3 + 0.2*0.01 = 0.122, so the test relevance > 0.1 of
\* retrieve_documents drops no document with a score other than 0
C27_FloorDropsOnlyZero ==
    (ret.op = "calculate_relevance" /\ ret.value # FZero)
        => /\ FLeq(<<122, 1000>>, ret.value)
           /\ FLess(MinimumThreshold, ret.value)

\* a document scored without any bonus: its score is not 0 and is under 0.2
C27_Witness ==
    /\ ret.op = "calculate_relevance"
    /\ ret.value # FZero
    /\ C23_Bonus = 0
    /\ FLess(ret.value, <<1, 5>>)

\* C28: a result is stable once returned: a later retrieve_documents on the
\* same store leaves the relevance scores of the documents of the result
\* returned before it unchanged
C28_ResultStable ==
    [][(ret.op = "retrieve_documents" /\ ret'.op = "retrieve_documents")
          => \A i \in 1..Len(ret.value.documents) :
                 heap'[ret.value.documents[i]].relevance_score
                     = heap[ret.value.documents[i]].relevance_score]_vars

\* C29: each chat request is answered under its own persona, also when two
\* requests with different personas are handled at the same time on the
\* shared PersonaRAG instance
C29_OwnPersona ==
    \A t \in ThreadIds :
        threads[t].pc = "responded" => threads[t].generated_for = threads[t].persona

\* C30: chat histories are isolated for each pair of a user id and a
\* persona: saving or clearing for one pair never changes what
\* get_chat_history returns for a different pair, also when user ids or
\* personas contain "_"
C30_HistoriesIsolated ==
    [][ret'.op \in {"save_chat_message", "clear_chat_history"}
          => \A u \in ChatUsers, p \in ChatPersonas :
                 <<u, p>> # <<ret'.user_id, ret'.persona>>
                     => get_chat_history(chat_histories', u, p)
                            = get_chat_history(chat_histories, u, p)]_vars

=============================================================================
